---- MODULE Spec2Model ----
(***************************************************************************)
(* A model of the NoMoreJokes Telegram bot (src/bot.py).                   *)
(*                                                                         *)
(* Text is modelled by TLA+ strings, which TLC treats as sequences of      *)
(* characters (Len, \o and SubSeq apply to them), so the string functions  *)
(* of the program (lower, strip, replace, the regular expressions, the     *)
(* JSON decoder) are computed character by character.                      *)
(*                                                                         *)
(* Four specifications share the variables:                                *)
(*   SpecSlug      _sanitize_slug applied to bounded strings               *)
(*   SpecRender    render_html applied to templates and records            *)
(*   SpecValidate  the fence stripping, decoding and key check of          *)
(*                 generate_article applied to backend outputs             *)
(*   Spec          the conversation (main's handler registration and the   *)
(*                 four handlers) with the blog directory                  *)
(***************************************************************************)
EXTENDS Integers, Sequences, FiniteSets, TLC

VARIABLES
    slug_in,        \* SpecSlug: the argument of the first _sanitize_slug call
    slug_out,       \* SpecSlug: the result of the latest call
    slug_calls,     \* SpecSlug: how many times _sanitize_slug was applied
    r_template,     \* SpecRender: the text of templates/template.html
    r_data,         \* SpecRender: the article record (key -> string)
    r_now,          \* SpecRender: the day render_html runs on
    r_out,          \* SpecRender: what render_html returned
    r_pc,           \* SpecRender: "start" | "done"
    v_body,         \* SpecValidate: the text inside the wrapping
    v_wrap,         \* SpecValidate: the wrapping (whitespace, fences, tag)
    v_result,       \* SpecValidate: what generate_article returned or raised
    v_pc,           \* SpecValidate: "start" | "done"
    conversations,  \* Spec: ConversationHandler's state per user (absent = idle)
    dir_exists,     \* Spec: whether BLOG_DIR exists
    files,          \* Spec: the files of BLOG_DIR, name -> content
    today,          \* Spec: the current UTC day
    last            \* Spec: the update handled last and what it produced

slugVars == <<slug_in, slug_out, slug_calls>>
renderVars == <<r_template, r_data, r_now, r_out, r_pc>>
validateVars == <<v_body, v_wrap, v_result, v_pc>>
botVars == <<conversations, dir_exists, files, today, last>>
vars == <<slug_in, slug_out, slug_calls, r_template, r_data, r_now, r_out, r_pc,
          v_body, v_wrap, v_result, v_pc,
          conversations, dir_exists, files, today, last>>

-----------------------------------------------------------------------------
(* Bounds *)

\* SpecSlug applies _sanitize_slug to every string over SlugAlphabet of at
\* most this length.
MaxSlugLen == 4

\* The days the clock may advance from the first day.
MaxDay == 1

-----------------------------------------------------------------------------
(* Strings *)

\* A TLA+ string literal cannot hold the backquote character: throughout the
\* model the apostrophe stands for it.  No input of the model holds a real
\* apostrophe.
Backquote == "'"

Ch(s, i) == SubSeq(s, i, i)

StartsWithAt(s, i, p) ==
    /\ i + Len(p) - 1 <= Len(s)
    /\ SubSeq(s, i, i + Len(p) - 1) = p

EndsWith(s, p) ==
    /\ Len(p) <= Len(s)
    /\ SubSeq(s, Len(s) - Len(p) + 1, Len(s)) = p

Contains(s, p) == \E i \in 1..(Len(s) - Len(p) + 1) : StartsWithAt(s, i, p)

\* The least j in lo..hi that is in hits, or hi + 1 (lo itself when lo > hi).
First(lo, hi, hits) ==
    IF lo > hi THEN lo
    ELSE CHOOSE j \in lo..(hi + 1) :
             /\ j = hi + 1 \/ j \in hits
             /\ \A k \in lo..(j - 1) : k \notin hits

\* The greatest j in lo..hi that is in hits, or lo - 1.
Last(lo, hi, hits) ==
    IF lo > hi THEN lo - 1
    ELSE CHOOSE j \in (lo - 1)..hi :
             /\ j = lo - 1 \/ j \in hits
             /\ \A k \in (j + 1)..hi : k \notin hits

\* All strings over alphabet of length exactly n / at most n.
RECURSIVE StringsOfLen(_, _)
StringsOfLen(alphabet, n) ==
    IF n = 0 THEN {""}
    ELSE {s \o c : s \in StringsOfLen(alphabet, n - 1), c \in alphabet}

StringsUpTo(alphabet, n) == UNION {StringsOfLen(alphabet, k) : k \in 0..n}

UpperCase == "ABCDEFGHIJKLMNOPQRSTUVWXYZ"
LowerCase == "abcdefghijklmnopqrstuvwxyz"
Digits == "0123456789"

IndexIn(s, c) == IF \E i \in 1..Len(s) : Ch(s, i) = c
                 THEN CHOOSE i \in 1..Len(s) : Ch(s, i) = c
                 ELSE 0

\* str.lower() of one character.
LowerChar(c) == IF IndexIn(UpperCase, c) > 0
                THEN Ch(LowerCase, IndexIn(UpperCase, c))
                ELSE c

\* str.lower(), bot.py line 112.
RECURSIVE LowerFrom(_, _)
LowerFrom(s, i) ==
    IF i > Len(s) THEN "" ELSE LowerChar(Ch(s, i)) \o LowerFrom(s, i + 1)

lower(s) == LowerFrom(s, 1)

\* The whitespace str.strip() and the regular expression class \s remove,
\* of the characters the inputs of the model hold.
Whitespace == {" ", "\t", "\n", "\r"}

\* The first position from i on whose character is not in chars (Len(s) + 1
\* when there is none), and the last position up to j likewise (0).
SkipForward(s, i, chars) == First(i, Len(s), {k \in 1..Len(s) : Ch(s, k) \notin chars})
SkipBackward(s, j, chars) == Last(1, j, {k \in 1..Len(s) : Ch(s, k) \notin chars})

\* str.strip(chars): the characters of chars removed from both ends.
strip(s, chars) ==
    LET i == SkipForward(s, 1, chars)
        j == SkipBackward(s, Len(s), chars)
    IN  IF i > j THEN "" ELSE SubSeq(s, i, j)

\* str.replace(old, new): every non-overlapping occurrence of old, found
\* left to right, replaced by new; the text put in is not scanned again.
RECURSIVE ReplaceFrom(_, _, _, _)
ReplaceFrom(s, i, old, new) ==
    LET j == First(i, Len(s), {k \in 1..Len(s) : StartsWithAt(s, k, old)}) IN
    IF j > Len(s) THEN SubSeq(s, i, Len(s))
    ELSE SubSeq(s, i, j - 1) \o new \o ReplaceFrom(s, j + Len(old), old, new)

\* A mutant of str.replace: only the first occurrence is replaced.
ReplaceOnce(s, old, new) ==
    IF ~Contains(s, old) THEN s
    ELSE SubSeq(s, 1, First(1, Len(s), {k \in 1..Len(s) : StartsWithAt(s, k, old)}) - 1)
             \o new
             \o SubSeq(s, First(1, Len(s), {k \in 1..Len(s) : StartsWithAt(s, k, old)})
                              + Len(old), Len(s))

replace(s, old, new) == ReplaceFrom(s, 1, old, new)

-----------------------------------------------------------------------------
(* _sanitize_slug, bot.py lines 110-115 *)

\* The characters the class [a-z0-9-] admits.
SlugChars == {Ch(LowerCase, i) : i \in 1..Len(LowerCase)}
                 \cup {Ch(Digits, i) : i \in 1..Len(Digits)} \cup {"-"}

\* re.sub(r"[^a-z0-9-]", "-", slug), line 113.
RECURSIVE HyphenateFrom(_, _)
HyphenateFrom(s, i) ==
    IF i > Len(s) THEN ""
    ELSE (IF Ch(s, i) \in SlugChars THEN Ch(s, i) ELSE "-") \o HyphenateFrom(s, i + 1)

\* re.sub(r"-{2,}", "-", slug), line 114: each run of hyphens becomes one.
RECURSIVE CollapseFrom(_, _)
CollapseFrom(s, i) ==
    IF i > Len(s) THEN ""
    ELSE IF Ch(s, i) = "-"
         THEN "-" \o CollapseFrom(s, SkipForward(s, i, {"-"}))
         ELSE Ch(s, i) \o CollapseFrom(s, i + 1)

\* A mutant of the sanitizer: the run-collapsing substitution is left out.
SanitizeNoCollapse(slug) ==
    LET t == strip(HyphenateFrom(lower(slug), 1), {"-"})
    IN  IF t = "" THEN "article" ELSE t

_sanitize_slug(slug) ==
    LET lowered == lower(slug)
        hyphenated == HyphenateFrom(lowered, 1)
        collapsed == CollapseFrom(hyphenated, 1)
        stripped == strip(collapsed, {"-"})
    IN  IF stripped = "" THEN "article" ELSE stripped

\* An upper-case and a lower-case letter, a digit, the hyphen, and two
\* characters outside the class.
SlugAlphabet == {"a", "B", "7", "-", "!", " "}

\* The two examples of the specification, longer than MaxSlugLen.
SlugExamples == {"Hello, World!!", "---"}

SlugInputs == StringsUpTo(SlugAlphabet, MaxSlugLen) \cup SlugExamples

SlugIdle ==
    /\ slug_in = ""
    /\ slug_out = ""
    /\ slug_calls = 0

SlugInit ==
    /\ slug_in \in SlugInputs
    /\ slug_out = slug_in
    /\ slug_calls = 0

\* One more application of _sanitize_slug, to the result of the previous one.
Sanitize ==
    /\ slug_calls < 2
    /\ slug_out' = _sanitize_slug(slug_out)
    /\ slug_calls' = slug_calls + 1
    /\ UNCHANGED <<slug_in, renderVars, validateVars, botVars>>

-----------------------------------------------------------------------------
(* json.loads, bot.py line 98 *)

(***************************************************************************)
(* A decoded JSON value is [t |-> type, v |-> payload]:                    *)
(*   "str" the text, "num" the literal, "bool" "true" or "false",          *)
(*   "null" "", "obj" a function from keys to values (a dict), "arr" a     *)
(*   sequence of values (a list).                                          *)
(* The decoder follows Python's: strict strings (no raw control            *)
(* character), the escapes \" \\ \/ \n \r \t \uXXXX, objects, arrays,      *)
(* integers, null, true, false; whitespace between tokens; nothing after   *)
(* the value.  Fractions, exponents and NaN are not modelled: no input of  *)
(* the model holds one.                                                    *)
(***************************************************************************)

StrV(s) == [t |-> "str", v |-> s]
NullV == [t |-> "null", v |-> ""]

\* Stand-ins for decoded characters a TLA+ string cannot hold.  No raw input
\* of the model holds one of them.
LoneSurrogate == "^"   \* an unpaired surrogate code point (U+D800..U+DFFF)
AstralChar == "@"      \* a character above U+FFFF, from a surrogate pair
OtherChar == "~"       \* any other character outside printable ASCII

\* Printable ASCII from the space (32) to the tilde (126); the backquote (96)
\* is written Backquote.
Ascii == " !\"#$%&'()*+,-./0123456789:;<=>?@ABCDEFGHIJKLMNOPQRSTUVWXYZ[\\]^_'abcdefghijklmnopqrstuvwxyz{|}~"
HexDigits == "0123456789abcdef"

IsHex(c) == Len(c) = 1 /\ IndexIn(HexDigits, LowerChar(c)) > 0
HexVal(c) == IndexIn(HexDigits, LowerChar(c)) - 1

\* Whether \uXXXX, with four hexadecimal digits, stands at s[i..i+5].
IsUEscape(s, i) ==
    /\ StartsWithAt(s, i, "\\u")
    /\ i + 5 <= Len(s)
    /\ \A k \in 2..5 : IsHex(Ch(s, i + k))

CodePoint(s, i) ==
    4096 * HexVal(Ch(s, i + 2)) + 256 * HexVal(Ch(s, i + 3))
        + 16 * HexVal(Ch(s, i + 4)) + HexVal(Ch(s, i + 5))

IsHigh(cp) == 55296 <= cp /\ cp <= 56319
IsLow(cp) == 56320 <= cp /\ cp <= 57343

DecodeFail == [ok |-> FALSE, val |-> NullV, next |-> 0]
Decoded(val, next) == [ok |-> TRUE, val |-> val, next |-> next]

JsonControl == {"\t", "\n", "\r", "\f"}

\* The character a \uXXXX escape with code point cp at s[i] stands for, and
\* the length of the escape: a high surrogate followed by the escape of a
\* low one is one character.
UnicodeEscape(s, i, cp) ==
    IF IsHigh(cp) /\ IsUEscape(s, i + 6) /\ IsLow(CodePoint(s, i + 6))
    THEN [ok |-> TRUE, text |-> AstralChar, len |-> 12]
    ELSE IF IsHigh(cp) \/ IsLow(cp)
    THEN [ok |-> TRUE, text |-> LoneSurrogate, len |-> 6]
    ELSE IF 32 <= cp /\ cp <= 126
    THEN [ok |-> TRUE, text |-> Ch(Ascii, cp - 31), len |-> 6]
    ELSE [ok |-> TRUE, text |-> OtherChar, len |-> 6]

\* The escape sequence at s[i], a backslash followed by e.
Escape(s, i, e) ==
    CASE e = "\"" -> [ok |-> TRUE, text |-> "\"", len |-> 2]
      [] e = "\\" -> [ok |-> TRUE, text |-> "\\", len |-> 2]
      [] e = "/"  -> [ok |-> TRUE, text |-> "/", len |-> 2]
      [] e = "n"  -> [ok |-> TRUE, text |-> "\n", len |-> 2]
      [] e = "r"  -> [ok |-> TRUE, text |-> "\r", len |-> 2]
      [] e = "t"  -> [ok |-> TRUE, text |-> "\t", len |-> 2]
      [] e = "u" /\ IsUEscape(s, i) -> UnicodeEscape(s, i, CodePoint(s, i))
      [] OTHER -> [ok |-> FALSE, text |-> "", len |-> 0]

(***************************************************************************)
(* py_scanstring from the character after the opening quote.  The text up  *)
(* to the next quote, backslash or control character (at s[i]) is taken as *)
(* it is; a quote ends the string, a control character is an error, a      *)
(* backslash opens an escape, after which the scan goes on.                *)
(***************************************************************************)
RECURSIVE ScanString(_, _, _)

AfterEscape(s, i, acc, esc) ==
    IF ~esc.ok THEN DecodeFail ELSE ScanString(s, i + esc.len, acc \o esc.text)

ScanStringAt(s, i, acc) ==
    IF i > Len(s) THEN DecodeFail
    ELSE IF Ch(s, i) = "\"" THEN Decoded(StrV(acc), i + 1)
    ELSE IF Ch(s, i) \in JsonControl THEN DecodeFail
    ELSE IF i + 1 > Len(s) THEN DecodeFail
    ELSE AfterEscape(s, i, acc, Escape(s, i, Ch(s, i + 1)))

ScanStringTo(s, from, taken, i) == ScanStringAt(s, i, taken \o SubSeq(s, from, i - 1))

ScanString(s, from, taken) ==
    ScanStringTo(s, from, taken,
                 First(from, Len(s),
                       {k \in 1..Len(s) : Ch(s, k) \in {"\"", "\\"} \cup JsonControl}))

DigitChars == {Ch(Digits, k) : k \in 1..Len(Digits)}

\* The end of the integer literal (0|[1-9][0-9]*) starting at d, or 0.
DigitsEnd(s, d) ==
    IF d > Len(s) \/ Ch(s, d) \notin DigitChars THEN 0
    ELSE IF Ch(s, d) = "0" THEN d + 1
    ELSE SkipForward(s, d, DigitChars)

\* The end of the literal -?(0|[1-9][0-9]*) starting at i, or 0.
NumberEnd(s, i) == DigitsEnd(s, IF Ch(s, i) = "-" THEN i + 1 ELSE i)

NumberTo(s, i, end) ==
    IF end = 0 THEN DecodeFail
    ELSE Decoded([t |-> "num", v |-> SubSeq(s, i, end - 1)], end)

(***************************************************************************)
(* The scanner, one recursive operator with three entries:                 *)
(*   "value"     scan_once: the value starting at s[i];                    *)
(*   "members"   JSONObject from the first key on: s[i] must open a key,   *)
(*               acc holds the pairs read (a key given twice keeps its     *)
(*               last value, as dict(pairs) does);                         *)
(*   "elements"  JSONArray from the first element on, acc the items read.  *)
(* The operators before it are the steps of the three, each given what the *)
(* step before it read.                                                    *)
(***************************************************************************)
RECURSIVE Scan(_, _, _, _)

\* After "{" and the whitespace behind it, at s[j].
ObjectFrom(s, j) ==
    IF j <= Len(s) /\ Ch(s, j) = "}" THEN Decoded([t |-> "obj", v |-> <<>>], j + 1)
    ELSE Scan("members", s, j, <<>>)

\* After "[" and the whitespace behind it, at s[j].
ArrayFrom(s, j) ==
    IF j <= Len(s) /\ Ch(s, j) = "]" THEN Decoded([t |-> "arr", v |-> <<>>], j + 1)
    ELSE Scan("elements", s, j, <<>>)

\* After a member, at s[d]: "}" ends the object, "," brings the next key.
NextMember(s, pairs, d) ==
    IF d > Len(s) THEN DecodeFail
    ELSE IF Ch(s, d) = "}" THEN Decoded([t |-> "obj", v |-> pairs], d + 1)
    ELSE IF Ch(s, d) = ","
    THEN Scan("members", s, SkipForward(s, d + 1, Whitespace), pairs)
    ELSE DecodeFail

\* After the value val of the key k.
AfterMember(s, acc, k, val) ==
    IF ~val.ok THEN DecodeFail
    ELSE NextMember(s, (k :> val.val) @@ acc, SkipForward(s, val.next, Whitespace))

\* After the key k and the whitespace behind it, at s[c]: ":" and the value.
AfterKey(s, acc, k, c) ==
    IF c > Len(s) \/ Ch(s, c) # ":" THEN DecodeFail
    ELSE AfterMember(s, acc, k,
                     Scan("value", s, SkipForward(s, c + 1, Whitespace), <<>>))

\* After the string key was scanned as a key.
KeyScanned(s, acc, key) ==
    IF ~key.ok THEN DecodeFail
    ELSE AfterKey(s, acc, key.val.v, SkipForward(s, key.next, Whitespace))

\* After an element, at s[d]: "]" ends the array, "," brings the next one.
NextElement(s, items, d) ==
    IF d > Len(s) THEN DecodeFail
    ELSE IF Ch(s, d) = "]" THEN Decoded([t |-> "arr", v |-> items], d + 1)
    ELSE IF Ch(s, d) = ","
    THEN Scan("elements", s, SkipForward(s, d + 1, Whitespace), items)
    ELSE DecodeFail

\* After the element val.
AfterElement(s, acc, val) ==
    IF ~val.ok THEN DecodeFail
    ELSE NextElement(s, Append(acc, val.val), SkipForward(s, val.next, Whitespace))

Scan(entry, s, i, acc) ==
    CASE entry = "value" ->
            IF i > Len(s) THEN DecodeFail
            ELSE CASE Ch(s, i) = "\"" -> ScanString(s, i + 1, "")
                   [] Ch(s, i) = "{" -> ObjectFrom(s, SkipForward(s, i + 1, Whitespace))
                   [] Ch(s, i) = "[" -> ArrayFrom(s, SkipForward(s, i + 1, Whitespace))
                   [] StartsWithAt(s, i, "null") -> Decoded(NullV, i + 4)
                   [] StartsWithAt(s, i, "true") ->
                        Decoded([t |-> "bool", v |-> "true"], i + 4)
                   [] StartsWithAt(s, i, "false") ->
                        Decoded([t |-> "bool", v |-> "false"], i + 5)
                   [] OTHER -> NumberTo(s, i, NumberEnd(s, i))
      [] entry = "members" ->
            IF i > Len(s) \/ Ch(s, i) # "\"" THEN DecodeFail
            ELSE KeyScanned(s, acc, ScanString(s, i + 1, ""))
      [] entry = "elements" ->
            AfterElement(s, acc, Scan("value", s, i, <<>>))

\* After the value r: only whitespace may follow it.
Whole(s, r) ==
    IF ~r.ok THEN DecodeFail
    ELSE IF SkipForward(s, r.next, Whitespace) # Len(s) + 1 THEN DecodeFail
    ELSE r

\* json.loads(s): one value, whitespace around it, nothing else.  ok = FALSE
\* is json.JSONDecodeError.
json_loads(s) == Whole(s, Scan("value", s, SkipForward(s, 1, Whitespace), <<>>))

-----------------------------------------------------------------------------
(* generate_article, bot.py lines 87-103 *)

\* The markdown code-fence marker: three backquotes.
Fence == Backquote \o Backquote \o Backquote

\* A mutant: the marker is removed whatever follows it, no "json" with it.
StripLeadingFenceNoTag(raw) ==
    IF ~StartsWithAt(raw, 1, Fence) THEN raw
    ELSE SubSeq(raw, SkipForward(raw, 1 + Len(Fence), Whitespace), Len(raw))

\* re.sub(r"^```(?:json)?\s*", "", raw), line 95: at the start of the text
\* only, the marker, then "json" if it follows, then the whitespace after.
StripLeadingFence(raw) ==
    IF ~StartsWithAt(raw, 1, Fence) THEN raw
    ELSE LET a == 1 + Len(Fence)
             b == IF StartsWithAt(raw, a, "json") THEN a + 4 ELSE a
             c == SkipForward(raw, b, Whitespace)
         IN  SubSeq(raw, c, Len(raw))

\* re.sub(r"\s*```$", "", raw), line 96: the marker at the end of the text
\* (or before its final newline) with the whitespace before it.
StripTrailingFence(raw) ==
    LET e == IF EndsWith(raw, Fence) THEN Len(raw)
             ELSE IF EndsWith(raw, Fence \o "\n") THEN Len(raw) - 1
             ELSE 0
    IN  IF e = 0 THEN raw
        ELSE SubSeq(raw, 1, SkipBackward(raw, e - Len(Fence), Whitespace))
                 \o SubSeq(raw, e + 1, Len(raw))

\* Lines 92-96: what json.loads is given.
StripFences(text) ==
    StripTrailingFence(StripLeadingFence(strip(text, Whitespace)))

\* Line 99.
required == {"title", "slug", "meta_description", "keywords", "html_content"}

Raised(e) == [exc |-> e, data |-> <<>>, missing |-> {}]
Returned(d) == [exc |-> "none", data |-> d, missing |-> {}]

\* Line 100: required - data.keys().
MissingKeys(data) == required \ DOMAIN data

\* A mutant of the decoding: text that is no JSON is reported as a ValueError
\* that is not a JSONDecodeError.
LoadedPlainValueError(p) ==
    IF ~p.ok THEN [exc |-> "ValueError", val |-> NullV]
    ELSE [exc |-> "none", val |-> p.val]

\* Line 98: json.loads raises json.JSONDecodeError on text that is no JSON.
Loaded(p) ==
    IF ~p.ok THEN [exc |-> "JSONDecodeError", val |-> NullV]
    ELSE [exc |-> "none", val |-> p.val]

\* A mutant of the key check: the dict is returned whatever its keys.
CheckedNoKeys(decoded) ==
    IF decoded.exc # "none" THEN Raised(decoded.exc)
    ELSE IF decoded.val.t # "obj" THEN Raised("AttributeError")
    ELSE Returned(decoded.val.v)

\* Lines 99-103, on what line 98 gave.  A decoded value that is no dict (a
\* list, a string, a number, None) has no keys(): AttributeError.
Checked(decoded) ==
    IF decoded.exc # "none" THEN Raised(decoded.exc)
    ELSE IF decoded.val.t # "obj" THEN Raised("AttributeError")
    ELSE IF MissingKeys(decoded.val.v) # {}
    THEN [exc |-> "ValueError", data |-> <<>>, missing |-> MissingKeys(decoded.val.v)]
    ELSE Returned(decoded.val.v)

(***************************************************************************)
(* The backend's answer is response = [ok, text]: ok = FALSE is any        *)
(* exception of lines 89-92 (the backend unreachable, a blocked response   *)
(* whose .text raises).  The result is [exc, data, missing]: exc = "none"  *)
(* and the dict returned, or the exception raised, with the keys a         *)
(* ValueError names.                                                       *)
(***************************************************************************)
generate_article(response) ==
    IF ~response.ok THEN Raised("BackendError")
    ELSE Checked(Loaded(json_loads(StripFences(response.text))))

-----------------------------------------------------------------------------
(* render_html, bot.py lines 118-133 *)

\* The current UTC day: day 0 is 30 December 2026.
DateOf(day) ==
    IF day <= 1 THEN [year |-> 2026, month |-> 12, day |-> 30 + day]
    ELSE [year |-> 2027, month |-> 1, day |-> day - 1]

MonthNames == <<"January", "February", "March", "April", "May", "June", "July",
                "August", "September", "October", "November", "December">>

Digit(n) == Ch(Digits, n + 1)
TwoDigits(n) == Digit((n \div 10) % 10) \o Digit(n % 10)

\* str(now.year), line 129.
YearText(now) == TwoDigits(now.year \div 100) \o TwoDigits(now.year % 100)

\* now.strftime("%B %d, %Y"), line 128.
strftime(now) ==
    MonthNames[now.month] \o " " \o TwoDigits(now.day) \o ", " \o YearText(now)

\* The keys of the replacements dict, in the order the loop of line 131
\* takes them (the order they are written in, lines 123-129).
Placeholders == <<"{{ title }}", "{{ slug }}", "{{ meta_description }}",
                  "{{ keywords }}", "{{ content }}", "{{ date }}", "{{ year }}">>

\* The values of the replacements dict, lines 123-129.
Replacements(data, now) ==
    <<data["title"], data["slug"], data["meta_description"], data["keywords"],
      data["html_content"], StrV(strftime(now)), StrV(YearText(now))>>

\* Lines 131-132 from the k-th placeholder on: str.replace raises TypeError
\* for a value that is no string.
RECURSIVE ReplaceAll(_, _, _)
ReplaceAll(template, reps, k) ==
    IF k > Len(Placeholders) THEN [exc |-> "none", html |-> template]
    ELSE IF reps[k].t # "str" THEN [exc |-> "TypeError", html |-> ""]
    ELSE ReplaceAll(replace(template, Placeholders[k], reps[k].v), reps, k + 1)

\* template_file = [ok, text] is what TEMPLATE_PATH.read_text gives: ok =
\* FALSE when the file cannot be read (line 120 raises OSError).
render_html(data, template_file, now) ==
    IF ~template_file.ok THEN [exc |-> "OSError", html |-> ""]
    ELSE ReplaceAll(template_file.text, Replacements(data, now), 1)

-----------------------------------------------------------------------------
(* SpecRender: render_html on templates and records *)

RenderTitles == {"Hi", "slug", "{{ slug }}", "{{ "}
RenderSlugs == {"s", "{{ title }}", "year }}"}
RenderContents == {StrV("<p>x</p>"), StrV("<p>{{ title }}</p>"), NullV}

RenderRecords ==
    {[title |-> StrV(t), slug |-> StrV(sl), meta_description |-> StrV("M"),
      keywords |-> StrV("k"), html_content |-> c] :
        t \in RenderTitles, sl \in RenderSlugs, c \in RenderContents}

RenderTemplates ==
    {[ok |-> TRUE, text |-> x] : x \in
        {"<h1>{{ title }}</h1>",
         "<title>{{ title }}</title><a href=\"{{ slug }}.html\">{{ meta_description }}|{{ keywords }}</a>{{ content }}<i>{{ date }}</i>(c) {{ year }}",
         "{{ title }} - {{ title }}",
         "{{ title }}{{ slug }}",
         "{{ {{ title }} }}",
         "{{title}} {{ Title }} { title }",
         "plain"}}
    \cup {[ok |-> FALSE, text |-> ""]}

RenderIdle ==
    /\ r_template = [ok |-> FALSE, text |-> ""]
    /\ r_data = <<>>
    /\ r_now = 0
    /\ r_out = [exc |-> "none", html |-> ""]
    /\ r_pc = "idle"

RenderInit ==
    /\ r_template \in RenderTemplates
    /\ r_data \in RenderRecords
    /\ r_now \in 0..MaxDay
    /\ r_out = [exc |-> "none", html |-> ""]
    /\ r_pc = "start"

Render ==
    /\ r_pc = "start"
    /\ r_out' = render_html(r_data, r_template, DateOf(r_now))
    /\ r_pc' = "done"
    /\ UNCHANGED <<r_template, r_data, r_now, slugVars, validateVars, botVars>>

-----------------------------------------------------------------------------
(* SpecValidate: generate_article on backend outputs *)

\* The example of the specification, and variations of it.
FullObject ==
    "{\"title\":\"T\",\"slug\":\"s\",\"meta_description\":\"M\",\"keywords\":\"k\",\"html_content\":\"<p>x</p>\"}"
SpacedNullTitle ==
    "{ \"title\": null,\n  \"slug\": \"s\", \"meta_description\": \"M\",\n  \"keywords\": \"k\", \"html_content\": \"<p>x</p>\" }"
ExtraKeyNumbers ==
    "{\"title\":\"T\",\"slug\":7,\"meta_description\":\"M\",\"keywords\":[\"a\",\"b\"],\"html_content\":\"\",\"note\":true}"
MissingSlug ==
    "{\"title\":\"T\",\"meta_description\":\"M\",\"keywords\":\"k\",\"html_content\":\"<p>x</p>\"}"
MissingTwo ==
    "{\"slug\":\"s\",\"meta_description\":\"M\",\"keywords\":\"k\"}"

ValidateBodies ==
    {FullObject, SpacedNullTitle, ExtraKeyNumbers, MissingSlug, MissingTwo,
     "not json", "[1, 2]", "\"title\"", ""}

\* The text around the body: whitespace, then the opening marker with its
\* language tag, whitespace, the body, whitespace, the closing marker,
\* whitespace.
ValidateWraps ==
    {[lead |-> l, open |-> o, tag |-> t, before |-> b, after |-> a, close |-> c,
      trail |-> tr] :
        l \in {"", " \n"}, o \in BOOLEAN, t \in {"", "json", "js", "JSON"},
        b \in {"", "\n", " "}, a \in {"", "\n"}, c \in BOOLEAN, tr \in {"", "\n "}}

Wrapped(wrap, body) ==
    wrap.lead \o (IF wrap.open THEN Fence \o wrap.tag ELSE "") \o wrap.before
        \o body \o wrap.after \o (IF wrap.close THEN Fence ELSE "") \o wrap.trail

ValidateIdle ==
    /\ v_body = ""
    /\ v_wrap = <<>>
    /\ v_result = Raised("none")
    /\ v_pc = "idle"

ValidateInit ==
    /\ v_body \in ValidateBodies
    /\ v_wrap \in {w \in ValidateWraps : ~w.open => w.tag = ""}
    /\ v_result = Raised("none")
    /\ v_pc = "start"

\* The backend answers with the wrapped body.
Validate ==
    /\ v_pc = "start"
    /\ v_result' = generate_article([ok |-> TRUE, text |-> Wrapped(v_wrap, v_body)])
    /\ v_pc' = "done"
    /\ UNCHANGED <<v_body, v_wrap, slugVars, renderVars, botVars>>

\* The call to the backend raises.
BackendFails ==
    /\ v_pc = "start"
    /\ v_result' = generate_article([ok |-> FALSE, text |-> ""])
    /\ v_pc' = "failed"
    /\ UNCHANGED <<v_body, v_wrap, slugVars, renderVars, botVars>>

-----------------------------------------------------------------------------
(* The inputs of the bot *)

Users == {"u1", "u2"}

\* The updates a user sends: a command, a text that is no command, or a
\* message without text (a photo).
Commands == {"start", "generate", "publish", "cancel", "help"}
Texts == {"cats", " \n"}
Updates ==
    {[kind |-> "command", arg |-> c] : c \in Commands}
        \cup {[kind |-> "text", arg |-> t] : t \in Texts}
        \cup {[kind |-> "other", arg |-> ""]}

\* What the backend may answer.
ArticleJson(title, slug, html_content) ==
    "{\"title\":" \o title \o ",\"slug\":" \o slug
        \o ",\"meta_description\":\"M\",\"keywords\":\"k\",\"html_content\":"
        \o html_content \o "}"

NoResponse == [ok |-> FALSE, text |-> ""]

BackendResponses ==
    {NoResponse}
    \cup {[ok |-> TRUE, text |-> x] : x \in
        {"not json",
         Fence \o "json\n"
             \o ArticleJson("\"Hi\"", "\"Hello World\"", "\"<p>x</p>\"")
             \o "\n" \o Fence,
         ArticleJson("\"Again\"", "\"hello-world\"", "\"<p>y</p>\""),
         ArticleJson("\"Odd\"", "\"---\"", "\"<p>z</p>\""),
         ArticleJson("\"Hi\"", "\"hello-world\"", "\"<p>\\ud83d</p>\""),
         MissingSlug,
         ArticleJson("null", "\"---\"", "\"<p>x</p>\""),
         ArticleJson("\"T\"", "7", "\"<p>x</p>\"")}}

\* templates/template.html: the seven placeholders in a small document.
Template ==
    "<title>{{ title }}</title><meta name=\"description\" content=\"{{ meta_description }}\"><meta name=\"keywords\" content=\"{{ keywords }}\"><a href=\"{{ slug }}.html\">{{ title }}</a>{{ content }}<i>{{ date }}</i>(c) {{ year }}"

\* What the filesystem may do to one save_article call: nothing, refuse to
\* create BLOG_DIR, refuse to read the template, or refuse to open the output
\* file.
Faults == {"none", "mkdir", "template", "open"}

TemplateFile(fault) ==
    IF fault = "template" THEN [ok |-> FALSE, text |-> ""]
    ELSE [ok |-> TRUE, text |-> Template]

(***************************************************************************)
(* The pure functions, computed once for every argument the bot gives      *)
(* them: Articles[response] is generate_article(response),                 *)
(* Sanitized[slug] is _sanitize_slug(slug),                                *)
(* Renderings[data, template_file, now] is                                 *)
(* render_html(data, template_file, now), and Encodes[text] is whether     *)
(* the rendered text encodes as UTF-8 (an unpaired surrogate does not).    *)
(***************************************************************************)
Articles == [response \in BackendResponses |-> generate_article(response)]

ReturnedData ==
    {Articles[response].data :
        response \in {r \in BackendResponses : Articles[r].exc = "none"}}

Sanitized ==
    [slug \in {data["slug"].v : data \in ReturnedData} |-> _sanitize_slug(slug)]

Renderings ==
    [data \in ReturnedData, template_file \in {TemplateFile(f) : f \in Faults},
     now \in {DateOf(day) : day \in 0..MaxDay} |->
        render_html(data, template_file, now)]

Encodable(text) == ~Contains(text, LoneSurrogate)

Encodes ==
    [text \in {Renderings[k].html : k \in DOMAIN Renderings} |-> Encodable(text)]

-----------------------------------------------------------------------------
(* save_article, bot.py lines 136-142 *)

\* f"{slug}.html" under BLOG_DIR, line 140.
OutputPath(slug) == slug \o ".html"

\* A mutant of the output path: the slug of the record as it came.
SavePathRaw(data) == OutputPath(data["slug"].v)

\* Lines 139-140.
SavePath(data) == OutputPath(Sanitized[data["slug"].v])

\* Line 138: BLOG_DIR.mkdir(parents=True, exist_ok=True).
MadeDir(fs) == [fs EXCEPT !.dir = TRUE]

(***************************************************************************)
(* Line 141, output_path.write_text(rendered) in the directory fs.         *)
(* The text is rendered first (an exception of render_html leaves the     *)
(* file alone).  Path.write_text then opens the file for writing, which    *)
(* creates or empties it, and writes the text, encoding it: text that does *)
(* not encode raises UnicodeEncodeError and leaves the file empty.         *)
(***************************************************************************)
write_text(fs, output_path, rendered, fault) ==
    IF rendered.exc # "none" THEN [exc |-> rendered.exc, path |-> "", fs |-> fs]
    ELSE IF fault = "open" THEN [exc |-> "OSError", path |-> "", fs |-> fs]
    ELSE IF ~Encodes[rendered.html]
    THEN [exc |-> "UnicodeEncodeError", path |-> "",
          fs |-> [fs EXCEPT !.files = (output_path :> "") @@ @]]
    ELSE [exc |-> "none", path |-> output_path,
          fs |-> [fs EXCEPT !.files = (output_path :> rendered.html) @@ @]]

\* fs = [dir, files] is BLOG_DIR: whether it exists and its files.  The
\* result is [exc, path, fs]: the exception raised or the path returned,
\* and BLOG_DIR after the call.
save_article(data, now, fs, fault) ==
    IF ~fs.dir /\ fault = "mkdir" THEN [exc |-> "OSError", path |-> "", fs |-> fs]
    ELSE IF data["slug"].t # "str"
    THEN [exc |-> "AttributeError", path |-> "", fs |-> MadeDir(fs)]
    ELSE write_text(MadeDir(fs), SavePath(data),
                    Renderings[data, TemplateFile(fault), now], fault)

-----------------------------------------------------------------------------
(* The handlers, bot.py lines 149-210 *)

\* Line 49.
WAITING_FOR_TOPIC == 1

\* ConversationHandler.END, lines 185, 191, 205, 210.
END == -1

\* What a handler outside the conversation returns (None).
NoState == 0

\* The replies (without their emoji).
WelcomeText ==
    "Welcome to *NoMoreJokes Bot*!\n\nUse /generate or /publish and then send me a news headline or trending topic to generate an SEO-optimized article.\n\nUse /cancel at any time to stop."
AskTopicText ==
    "Send me a *news headline or trending topic* and I'll write a full article for you."
EmptyTopicText == "Please send a non-empty topic."
GeneratingText == "Generating your article... this may take a moment."
ParseFailureText == "Could not parse the AI response. Please try again later."
GenericFailureText ==
    "An error occurred while generating the article. Please try again later."
CancelledText == "Cancelled. Use /generate or /publish to start again."

BaseUrl == "https://senlodigi.github.io/NoMoreJokes/blog/"

\* Lines 196-204, with the slug of line 193.
SuccessFor(data, slug) ==
    "*Article generated!*\n\n"
        \o "*Title:* " \o data["title"].v \o "\n"
        \o "*Meta:* " \o data["meta_description"].v \o "\n"
        \o "*Keywords:* " \o data["keywords"].v \o "\n"
        \o "*Saved to:* " \o Backquote \o "blog/" \o slug \o ".html" \o Backquote \o "\n"
        \o "*URL:* " \o BaseUrl \o slug \o ".html"

\* Lines 193-204.
SuccessText(data) == SuccessFor(data, Sanitized[data["slug"].v])

\* A handler's outcome: the replies sent, the state returned and the
\* filesystem after it.
Outcome(replies, state, fs) == [replies |-> replies, state |-> state, fs |-> fs]

\* Lines 149-156.
start_handler(fs) == Outcome(<<WelcomeText>>, NoState, fs)

\* Lines 159-165.
generate_handler(fs) == Outcome(<<AskTopicText>>, WAITING_FOR_TOPIC, fs)

\* A mutant of cancel_handler: it stays in the conversation.
CancelKeepsWaiting(fs) == Outcome(<<CancelledText>>, WAITING_FOR_TOPIC, fs)

\* Lines 208-210.
cancel_handler(fs) == Outcome(<<CancelledText>>, END, fs)

\* Line 179, on the dict line 178 gave.
Saved(data, saved) == [exc |-> saved.exc, data |-> data, fs |-> saved.fs]

\* Lines 178-179, on what generate_article gave.
Generated(generated, now, fs, fault) ==
    IF generated.exc # "none"
    THEN [exc |-> generated.exc, data |-> <<>>, fs |-> fs]
    ELSE Saved(generated.data, save_article(generated.data, now, fs, fault))

\* Lines 177-179: the try block, generate_article then save_article.
Pipeline(response, now, fs, fault) ==
    Generated(Articles[response], now, fs, fault)

\* A mutant of the except clauses: the generic failure ends no conversation.
AfterPipelineGenericStays(done) ==
    IF done.exc = "JSONDecodeError"
    THEN Outcome(<<GeneratingText, ParseFailureText>>, END, done.fs)
    ELSE IF done.exc # "none"
    THEN Outcome(<<GeneratingText, GenericFailureText>>, WAITING_FOR_TOPIC, done.fs)
    ELSE Outcome(<<GeneratingText, SuccessText(done.data)>>, END, done.fs)

\* Lines 175 and 180-205: the reply before the try block, then the except
\* clauses in their order (json.JSONDecodeError before Exception), then the
\* success reply.
AfterPipeline(done) ==
    IF done.exc = "JSONDecodeError"
    THEN Outcome(<<GeneratingText, ParseFailureText>>, END, done.fs)
    ELSE IF done.exc # "none"
    THEN Outcome(<<GeneratingText, GenericFailureText>>, END, done.fs)
    ELSE Outcome(<<GeneratingText, SuccessText(done.data)>>, END, done.fs)

\* Lines 168-205.
topic_received(text, response, now, fs, fault) ==
    IF strip(text, Whitespace) = ""
    THEN Outcome(<<EmptyTopicText>>, WAITING_FOR_TOPIC, fs)
    ELSE AfterPipeline(Pipeline(response, now, fs, fault))

-----------------------------------------------------------------------------
(* main, bot.py lines 225-244: the handlers registered, and the bot *)

IsCommand(update, names) == update.kind = "command" /\ update.arg \in names

\* A mutant of the registration: the entry points are reached during a
\* conversation too (allow_reentry).
RouteReentry(convs, user, update) ==
    IF IsCommand(update, {"start"}) THEN "start_handler"
    ELSE IF IsCommand(update, {"generate", "publish"}) THEN "generate_handler"
    ELSE IF user \notin DOMAIN convs THEN "none"
    ELSE IF update.kind = "text" THEN "topic_received"
    ELSE IF IsCommand(update, {"cancel"}) THEN "cancel_handler"
    ELSE "none"

(***************************************************************************)
(* The handler an update reaches.  Both handlers are added to the same     *)
(* group (lines 240-241), where the first that accepts the update handles  *)
(* it: the /start handler, then the ConversationHandler.  A user without a *)
(* conversation reaches only its entry points (lines 228-231); a user in   *)
(* WAITING_FOR_TOPIC reaches the handlers of that state (lines 233-235),   *)
(* then the fallbacks (line 237).  convs holds the users in a              *)
(* conversation, with their state.                                         *)
(***************************************************************************)
Route(convs, user, update) ==
    IF IsCommand(update, {"start"}) THEN "start_handler"
    ELSE IF user \notin DOMAIN convs
    THEN (IF IsCommand(update, {"generate", "publish"}) THEN "generate_handler"
          ELSE "none")
    ELSE IF update.kind = "text" THEN "topic_received"
    ELSE IF IsCommand(update, {"cancel"}) THEN "cancel_handler"
    ELSE "none"

\* What ConversationHandler does with the state a handler returns: END
\* forgets the conversation, another state is stored, None changes nothing.
UpdateState(convs, user, state) ==
    IF state = END THEN [v \in DOMAIN convs \ {user} |-> convs[v]]
    ELSE IF state = WAITING_FOR_TOPIC THEN (user :> WAITING_FOR_TOPIC) @@ convs
    ELSE convs

SessionOf(convs, user) ==
    IF user \in DOMAIN convs THEN "awaiting_topic" ELSE "idle"

Fs == [dir |-> dir_exists, files |-> files]

NoUpdate == [kind |-> "none", arg |-> ""]

BotIdle ==
    /\ conversations = <<>>
    /\ dir_exists = FALSE
    /\ files = <<>>
    /\ today = 0
    /\ last = [user |-> "none", update |-> NoUpdate, pre |-> "idle",
               handler |-> "none", replies |-> <<>>, response |-> NoResponse,
               fault |-> "none"]

\* The program starts with no conversation; BLOG_DIR may exist or not.
BotInit ==
    /\ conversations = <<>>
    /\ dir_exists \in BOOLEAN
    /\ files = <<>>
    /\ today = 0
    /\ last = [user |-> "none", update |-> NoUpdate, pre |-> "idle",
               handler |-> "none", replies |-> <<>>, response |-> NoResponse,
               fault |-> "none"]

\* One update handled by handler with outcome out.
Handled(user, update, handler, out, response, fault) ==
    /\ conversations' = UpdateState(conversations, user, out.state)
    /\ dir_exists' = out.fs.dir
    /\ files' = out.fs.files
    /\ last' = [user |-> user, update |-> update,
                pre |-> SessionOf(conversations, user), handler |-> handler,
                replies |-> out.replies, response |-> response, fault |-> fault]
    /\ UNCHANGED <<today, slugVars, renderVars, validateVars>>

Start ==
    \E user \in Users, update \in Updates :
        /\ Route(conversations, user, update) = "start_handler"
        /\ Handled(user, update, "start_handler", start_handler(Fs), NoResponse, "none")

Generate ==
    \E user \in Users, update \in Updates :
        /\ Route(conversations, user, update) = "generate_handler"
        /\ Handled(user, update, "generate_handler", generate_handler(Fs),
                   NoResponse, "none")

\* Whether topic_received, given text and the backend's answer response,
\* comes to call save_article.
Saves(text, response) ==
    /\ strip(text, Whitespace) # ""
    /\ Articles[response].exc = "none"

\* The backend is called for a topic that is not blank, and save_article for
\* an answer generate_article returns: last keeps the answer and the fault
\* only then.
TopicReceived ==
    \E user \in Users, update \in Updates :
        /\ Route(conversations, user, update) = "topic_received"
        /\ \E response \in BackendResponses, fault \in Faults :
            /\ strip(update.arg, Whitespace) = "" => response = NoResponse
            /\ Saves(update.arg, response) \/ fault = "none"
            /\ \E out \in {topic_received(update.arg, response, DateOf(today),
                                          Fs, fault)} :
                Handled(user, update, "topic_received", out, response, fault)

Cancel ==
    \E user \in Users, update \in Updates :
        /\ Route(conversations, user, update) = "cancel_handler"
        /\ Handled(user, update, "cancel_handler", cancel_handler(Fs), NoResponse, "none")

\* An update no handler accepts: nothing is sent, nothing changes.
Ignored ==
    \E user \in Users, update \in Updates :
        /\ Route(conversations, user, update) = "none"
        /\ Handled(user, update, "none", Outcome(<<>>, NoState, Fs), NoResponse, "none")

\* A day passes.
Tick ==
    /\ today < MaxDay
    /\ today' = today + 1
    /\ UNCHANGED <<conversations, dir_exists, files, last>>
    /\ UNCHANGED <<slugVars, renderVars, validateVars>>

-----------------------------------------------------------------------------
(* The specifications *)

InitSlug == SlugInit /\ RenderIdle /\ ValidateIdle /\ BotIdle
NextSlug == Sanitize
SpecSlug == InitSlug /\ [][NextSlug]_vars

InitRender == SlugIdle /\ RenderInit /\ ValidateIdle /\ BotIdle
NextRender == Render
SpecRender == InitRender /\ [][NextRender]_vars

InitValidate == SlugIdle /\ RenderIdle /\ ValidateInit /\ BotIdle
NextValidate == Validate \/ BackendFails
SpecValidate == InitValidate /\ [][NextValidate]_vars

Init == SlugIdle /\ RenderIdle /\ ValidateIdle /\ BotInit
Next == Start \/ Generate \/ TopicReceived \/ Cancel \/ Ignored \/ Tick
Spec == Init /\ [][Next]_vars

-----------------------------------------------------------------------------
(* _sanitize_slug, checked under SpecSlug *)

\* The regular expression [a-z0-9]+(-[a-z0-9]+)* of the specification:
\* non-empty, only slug characters, no hyphen first, last or doubled.
MatchesSlugPattern(s) ==
    /\ Len(s) > 0
    /\ \A i \in 1..Len(s) : Ch(s, i) \in SlugChars
    /\ Ch(s, 1) # "-"
    /\ Ch(s, Len(s)) # "-"
    /\ \A i \in 1..(Len(s) - 1) : ~(Ch(s, i) = "-" /\ Ch(s, i + 1) = "-")

\* C7: _sanitize_slug is idempotent, and what it returns always matches
\* [a-z0-9]+(-[a-z0-9]+)*: it is never empty and has no leading, trailing or
\* doubled hyphen, being "article" when nothing else remains.  "Hello,
\* World!!" gives "hello-world" and "---" gives "article".  slug_out is
\* _sanitize_slug(slug_in) after the first call and the result of
\* sanitizing that again after the second.
C7_SanitizeIdempotentAndSafe ==
    /\ slug_calls >= 1 => MatchesSlugPattern(slug_out)
    /\ slug_calls = 2 => slug_out = _sanitize_slug(slug_in)
    /\ slug_calls >= 1 /\ slug_in = "Hello, World!!" => slug_out = "hello-world"
    /\ slug_calls >= 1 /\ slug_in = "---" => slug_out = "article"
    /\ slug_calls >= 1 /\ slug_in = "" => slug_out = "article"

\* A slug with punctuation, upper case and a run of hyphens, sanitized twice.
C7_SanitizedTwice ==
    /\ slug_calls = 2
    /\ slug_in = "Hello, World!!"
    /\ slug_out = "hello-world"

-----------------------------------------------------------------------------
(* render_html, checked under SpecRender *)

NoTokens(text) == \A n \in 1..Len(Placeholders) : ~Contains(text, Placeholders[n])

PlaceholderAt(s, k) == \E n \in 1..Len(Placeholders) : StartsWithAt(s, k, Placeholders[n])

WhichAt(s, k) == CHOOSE n \in 1..Len(Placeholders) : StartsWithAt(s, k, Placeholders[n])

\* The substitution in one pass over the template: each occurrence of a
\* placeholder in the template replaced by its value, and nothing else.
RECURSIVE SinglePassAt(_, _, _, _)
SinglePassFrom(s, i, reps) ==
    SinglePassAt(s, i, reps, First(i, Len(s), {k \in 1..Len(s) : PlaceholderAt(s, k)}))

SinglePassAt(s, i, reps, j) ==
    IF j > Len(s) THEN SubSeq(s, i, Len(s))
    ELSE SubSeq(s, i, j - 1) \o reps[WhichAt(s, j)].v
             \o SinglePassFrom(s, j + Len(Placeholders[WhichAt(s, j)]), reps)

SinglePass == SinglePassFrom(r_template.text, 1, Replacements(r_data, DateOf(r_now)))

\* render_html was given a template it could read and a record of strings.
Rendered ==
    /\ r_pc = "done"
    /\ r_template.ok
    /\ \A k \in DOMAIN r_data : r_data[k].t = "str"

\* C6 as amended: render_html replaces the placeholders one after another
\* (title, slug, meta_description, keywords, content, date, year), each in
\* the whole text the replacements before it produced.  Whenever the
\* one-pass substitution of the template holds no placeholder token, the
\* output is that text, with every occurrence replaced exactly once and no
\* token left.  A token that a value brings in is replaced in its turn when
\* its placeholder comes later (a title of "{{ slug }}" is rendered as the
\* slug) and stays in the output when its placeholder came before (a slug of
\* "{{ title }}").
C6_RenderSequential ==
    Rendered =>
        /\ r_out.exc = "none"
        /\ NoTokens(SinglePass) => r_out.html = SinglePass
        /\ r_template.text = "<h1>{{ title }}</h1>" /\ r_data.title.v = "{{ slug }}"
               => r_out.html = "<h1>" \o r_data.slug.v \o "</h1>"
        /\ r_template.text = "{{ title }}{{ slug }}" /\ r_data.title.v = "Hi"
               /\ r_data.slug.v = "{{ title }}"
               => r_out.html = "Hi{{ title }}"

\* A template with the title twice, rendered with both replaced.
C6_TitleTwice ==
    /\ Rendered
    /\ r_template.text = "{{ title }} - {{ title }}"
    /\ r_data.title.v = "Hi"
    /\ NoTokens(SinglePass)
    /\ r_out.html = "Hi - Hi"

\* C6 as the specification states it: for every record and template each
\* occurrence is replaced exactly once and no placeholder token remains.
C6_RenderExactlyOnce ==
    Rendered =>
        /\ r_out.exc = "none"
        /\ r_out.html = SinglePass
        /\ NoTokens(r_out.html)

-----------------------------------------------------------------------------
(* generate_article, checked under SpecValidate *)

\* The JSON value of the body, and the same for an object.
BodyJson == json_loads(v_body)

BodyIsObject == BodyJson.ok /\ BodyJson.val.t = "obj"

\* The body is an object with the five keys.
FiveKeys == BodyIsObject /\ required \subseteq DOMAIN BodyJson.val.v

\* The call has returned or raised for a body wrapped with no language tag
\* or with "json".
ValidatedPlain == v_pc = "done" /\ v_wrap.tag \in {"", "json"}

\* C4 as amended: every record generate_article returns has the five keys
\* title, slug, meta_description, keywords and html_content, whatever their
\* values: a null or a number is returned as it is.  An object that lacks
\* one of the keys is rejected with a ValueError that names the missing
\* keys, and an object with the five keys is returned as it was decoded.
C4_ReturnedHasFiveKeys ==
    /\ v_pc = "done" /\ v_result.exc = "none"
           => required \subseteq DOMAIN v_result.data
    /\ ValidatedPlain /\ BodyIsObject /\ ~FiveKeys
           => /\ v_result.exc = "ValueError"
              /\ v_result.missing = required \ DOMAIN BodyJson.val.v
    /\ ValidatedPlain /\ FiveKeys
           => /\ v_result.exc = "none"
              /\ v_result.data = BodyJson.val.v

\* A record with a null title, returned.
C4_NullTitleReturned ==
    /\ v_pc = "done"
    /\ v_body = SpacedNullTitle
    /\ v_result.exc = "none"
    /\ v_result.data["title"] = NullV

\* C4 as the specification states it: every record returned has the five
\* fields present and not null.
C4_ReturnedNonNull ==
    v_pc = "done" /\ v_result.exc = "none"
        => \A k \in required :
               k \in DOMAIN v_result.data /\ v_result.data[k] # NullV

\* The body wrapped in an opening and a closing marker.
Fenced == v_pc = "done" /\ v_wrap.open /\ v_wrap.close

\* What generate_article gives for the body alone.
Alone == generate_article([ok |-> TRUE, text |-> v_body])

\* C9 as amended: for an object with the five keys, wrapped in an opening
\* marker that has no language tag or the tag "json", and a closing marker,
\* with whitespace around them, generate_article returns the record it
\* returns for the object alone.  With another tag ("js", "JSON") the text
\* is rejected as no JSON: only "json" is removed with the marker.
C9_FenceWithJsonTagOnly ==
    Fenced /\ FiveKeys =>
        /\ Alone.exc = "none"
        /\ v_wrap.tag \in {"", "json"} => v_result = Alone
        /\ v_wrap.tag \notin {"", "json"} => v_result.exc = "JSONDecodeError"

\* The example of the specification: the object between a marker tagged
\* "json" and a closing marker, each on its own line.
C9_JsonFenceStripped ==
    /\ Fenced
    /\ v_body = FullObject
    /\ v_wrap.tag = "json" /\ v_wrap.before = "\n" /\ v_wrap.after = "\n"
    /\ v_result.exc = "none"
    /\ v_result.data["slug"] = StrV("s")

\* C9 as the specification states it: with or without any language tag.
C9_FenceWithAnyTag ==
    Fenced /\ FiveKeys => v_result = Alone

-----------------------------------------------------------------------------
(* The conversation, checked under Spec *)

\* last is the update handled last and conversations the sessions after it.
Session == SessionOf(conversations, last.user)

WasAwaiting == last.pre = "awaiting_topic"

NonEmptyTopic ==
    last.update.kind = "text" /\ strip(last.update.arg, Whitespace) # ""

EmptyTopic ==
    last.update.kind = "text" /\ strip(last.update.arg, Whitespace) = ""

IsSuccess(reply) == StartsWithAt(reply, 1, "*Article generated!*")

FinalReply == last.replies[Len(last.replies)]

StrippedJson ==
    [response \in BackendResponses |-> json_loads(StripFences(response.text))]

NotJson(response) == response.ok /\ ~StrippedJson[response].ok

LacksKey(response) ==
    /\ response.ok
    /\ StrippedJson[response].ok
    /\ StrippedJson[response].val.t = "obj"
    /\ ~(required \subseteq DOMAIN StrippedJson[response].val.v)

\* C3: the parse-failure reply is sent exactly when the backend's text,
\* trimmed and without its fences, is no JSON.  A backend that raises, an
\* object that lacks a required key, and a template or an output file that
\* fails all get the generic reply.
C3_ParseReplyIffNotJson ==
    last.handler = "topic_received" /\ NonEmptyTopic =>
        /\ FinalReply = ParseFailureText <=> NotJson(last.response)
        /\ \/ ~last.response.ok
           \/ LacksKey(last.response)
           \/ last.fault \in {"template", "open"}
           => FinalReply = GenericFailureText

\* An answer that is no JSON, told to the user as such.
C3_ParseFailureTold ==
    /\ last.handler = "topic_received" /\ NonEmptyTopic
    /\ NotJson(last.response)
    /\ last.replies = <<GeneratingText, ParseFailureText>>

-----------------------------------------------------------------------------
(* save_article within the pipeline, checked under Spec *)

\* This step is topic_received and it calls save_article.
SaveCalled ==
    /\ today' = today
    /\ last'.handler = "topic_received"
    /\ Saves(last'.update.arg, last'.response)

\* The step ends with the success reply: save_article returned.
SaveReturned == SaveCalled /\ IsSuccess(last'.replies[2])

\* The record saved, the file of its sanitized slug and its rendering.
SavedData == Articles[last'.response].data

SavedFile == OutputPath(Sanitized[SavedData["slug"].v])

SavedHtml == Renderings[SavedData, TemplateFile("none"), DateOf(today)].html

\* Some rendering of the record e.
RenderingOf(text, e) ==
    \E day \in 0..MaxDay :
        text = Renderings[e, TemplateFile("none"), DateOf(day)].html

\* C5 as amended: a save_article call that returns leaves the output
\* directory existing and the file named by the sanitized slug holding the
\* rendering of that call, whether the file existed or not, and changes no
\* other file.  Two saves whose slugs sanitize alike ("Hello World" and
\* "hello-world") so share one file, which holds the later rendering; two
\* saves whose sanitized slugs differ leave two files.  A call that raises
\* changes at most the file of its own slug, which it leaves empty.
C5_SaveWritesSanitizedSlugFile ==
    [][/\ SaveReturned =>
            /\ dir_exists'
            /\ DOMAIN files' = DOMAIN files \cup {SavedFile}
            /\ files'[SavedFile] = SavedHtml
            /\ \A f \in DOMAIN files \ {SavedFile} : files'[f] = files[f]
       /\ SaveCalled /\ ~SaveReturned =>
            \A f \in DOMAIN files' :
                \/ (f \in DOMAIN files /\ files'[f] = files[f])
                \/ (f = SavedFile /\ files'[f] = "")]_vars

\* The record with the slug "hello-world" saved over the file of the record
\* with the slug "Hello World", beside the file of another slug.
C5_Overwritten ==
    /\ last.handler = "topic_received"
    /\ IsSuccess(FinalReply)
    /\ Contains(last.response.text, "\"hello-world\"")
    /\ DOMAIN files = {"hello-world.html", "article.html"}
    /\ Contains(files["hello-world.html"], "<title>Again</title>")
    /\ Contains(files["article.html"], "<title>Odd</title>")

\* C5 as the specification states it: a save leaves the directory existing
\* and the file of its slug holding its rendering, and the file of a record
\* with a different slug is another file, which stays as it was.
C5_DifferentSlugsDifferentFiles ==
    [][SaveReturned =>
            /\ dir_exists'
            /\ files'[SavedFile] = SavedHtml
            /\ \A f \in DOMAIN files, e \in ReturnedData :
                   e["slug"] # SavedData["slug"] /\ RenderingOf(files[f], e)
                       => files'[f] = files[f]]_vars

\* C10: a topic answered with the parse-failure or the generic failure
\* message has created and changed no file of the output directory.
C10_FailureLeavesFiles ==
    [][/\ today' = today
       /\ last'.handler = "topic_received"
       /\ last'.replies[Len(last'.replies)] \in {ParseFailureText, GenericFailureText}
       => files' = files]_vars

====
